---- MODULE Spec2Model ----
(***************************************************************************)
(* A model of ItauClient (src/client.py): login, card discovery, the       *)
(* month-planning loop, the concurrent month fetches of one entity, the    *)
(* normalizers, the assignment of the gathered records and save().         *)
(*                                                                         *)
(* Dates are triples <<year, month, day>>.  Amounts are integers (cents).  *)
(* Strings that the code takes apart (lower(), strip(), split()) are       *)
(* sequences of one-character strings or of words; strings the code only   *)
(* compares are TLA+ strings.                                              *)
(***************************************************************************)
EXTENDS Integers, Sequences, FiniteSets, TLC

\* ------------------------------------------------------------------ bounds

\* Calendar years the planner's inputs are drawn from (PlanSpec).
NumYears == 2
\* Month-fetches planned in one run, over all its entities (Spec).
MaxFetches == 3
\* Longest month payload the normalizers are given (ParseSpec).
MaxRecs == 2

\* ------------------------------------------------------------------- dates

IsLeap(y) == (y % 4 = 0 /\ y % 100 # 0) \/ y % 400 = 0

DaysInMonth(y, m) ==
    IF m = 2 THEN (IF IsLeap(y) THEN 29 ELSE 28)
    ELSE IF m \in {4, 6, 9, 11} THEN 30 ELSE 31

\* datetime.date comparison: a > b
DateGreater(a, b) ==
    \/ a[1] > b[1]
    \/ a[1] = b[1] /\ a[2] > b[2]
    \/ a[1] = b[1] /\ a[2] = b[2] /\ a[3] > b[3]

DateLessEq(a, b) == ~DateGreater(a, b)

\* today -= relativedelta(months=1): one calendar month back, the day clamped
\* to the last day of the new month.
MonthBefore(dt) ==
    LET y == IF dt[2] = 1 THEN dt[1] - 1 ELSE dt[1]
        m == IF dt[2] = 1 THEN 12 ELSE dt[2] - 1
        d == IF dt[3] > DaysInMonth(y, m) THEN DaysInMonth(y, m) ELSE dt[3]
    IN  <<y, m, d>>

\* from_date = datetime.date(2016, 5, 1) of account_detail
AccountEpoch == <<2016, 5, 1>>
\* from_date = datetime.date(2012, 5, 1) of get_credit_cards
CardEpoch == <<2012, 5, 1>>

\* (year, month) of a date, and the number of calendar months from a to b
YearMonth(dt) == <<dt[1], dt[2]>>
MonthDiff(a, b) == (b[1] - a[1]) * 12 + (b[2] - a[2])

\* ----------------------------------------------------------------- strings

UpperChars == <<"A", "B", "C", "D", "E", "F", "G", "H", "I", "J", "K", "L", "M",
                "N", "O", "P", "Q", "R", "S", "T", "U", "V", "W", "X", "Y", "Z">>
LowerChars == <<"a", "b", "c", "d", "e", "f", "g", "h", "i", "j", "k", "l", "m",
                "n", "o", "p", "q", "r", "s", "t", "u", "v", "w", "x", "y", "z">>
Whitespace == {" ", "\t"}

LowerChar(c) ==
    IF \E i \in 1..Len(UpperChars) : UpperChars[i] = c
    THEN LowerChars[CHOOSE i \in 1..Len(UpperChars) : UpperChars[i] = c]
    ELSE c

\* str.lower()
StrLower(s) == [i \in 1..Len(s) |-> LowerChar(s[i])]

RECURSIVE LStrip(_)
LStrip(s) ==
    IF s # <<>> /\ Head(s) \in Whitespace THEN LStrip(Tail(s)) ELSE s

RECURSIVE RStrip(_)
RStrip(s) ==
    IF s # <<>> /\ s[Len(s)] \in Whitespace
    THEN RStrip(SubSeq(s, 1, Len(s) - 1)) ELSE s

\* str.strip()
StrStrip(s) == RStrip(LStrip(s))

\* " ".join(text.split()): a text is a sequence of tokens, each a word or a run
\* of whitespace; the cleaned text is its words, read as joined by one space.
IsWhitespaceRun(tok) == tok \in {" ", "  ", "\t"}
CleanText(toks) == SelectSeq(toks, LAMBDA tok : ~IsWhitespaceRun(tok))

\* text.startswith(word + " ") on a cleaned text: the first word is `word`
\* and another word follows (a cleaned text never ends with a space).
StartsWithWord(words, word) == Len(words) >= 2 /\ words[1] = word

\* "DEB. CAMBIOSS" in text, on a cleaned text
ContainsDebCambioss(words) ==
    \E i \in 1..(Len(words) - 1) : words[i] = "DEB." /\ words[i + 1] = "CAMBIOSS"

\* the literals the card normalizer compares with
ReciboDePago == <<"r", "e", "c", "i", "b", "o", " ", "d", "e", " ", "p", "a", "g", "o">>
DolaresCapital == <<"D", "o", "l", "a", "r", "e", "s">>
DolaresLower == <<"d", "o", "l", "a", "r", "e", "s">>
PesosLower == <<"p", "e", "s", "o", "s">>

\* ------------------------------------------------------------- normalizers

\* parse_date
ParseDate(f) == <<f.year, f.monthOfYear, f.dayOfMonth>>

\* The keys parse_transaction reads after the type has been accepted.
TxKeys == {"descripcion", "descripcionAdicional", "importe", "saldo", "fecha"}

\* parse_transaction raises KeyError on this raw movement.
TxRaises(raw) ==
    \/ "tipo" \notin DOMAIN raw
    \/ raw.tipo \in {"D", "C"} /\ ~(TxKeys \subseteq DOMAIN raw)

\* The raw type is one parse_transaction accepts.
TxTypeKnown(raw) == raw.tipo \in {"D", "C"}

\* The cleaned description triggers the transaction-detail lookup.
NeedsDetail(raw) ==
    /\ ~TxRaises(raw)
    /\ TxTypeKnown(raw)
    /\ ContainsDebCambioss(CleanText(raw.descripcion))

\* "amount": raw_tx["importe"]
TxAmount(raw) == raw.importe

\* parse_transaction on a raw movement it does not raise on: <<>> for None,
\* <<tx>> otherwise.  `ben` is what get_transaction_details returned (read only
\* when the description asks for it); `src` records where the raw movement
\* stood, <<task, position>> (a history field, not in the code).
ParseTransaction(raw, ben, src) ==
    IF ~TxTypeKnown(raw) THEN <<>>
    ELSE
      LET desc == CleanText(raw.descripcion)
          atm == StartsWithWord(desc, "RETIRO")
      IN  << [ description |-> IF atm THEN <<"RETIRO", "BANRED">> ELSE desc,
               additional_description |-> CleanText(raw.descripcionAdicional),
               type |-> IF raw.tipo = "D" THEN "debit" ELSE "credit",
               amount |-> TxAmount(raw),
               balance |-> raw.saldo,
               date |-> ParseDate(raw.fecha),
               meta |-> [ beneficiary |->
                              IF ContainsDebCambioss(desc) THEN <<ben>> ELSE <<>>,
                          debit_card_purchase |-> StartsWithWord(desc, "COMPRA"),
                          atm |-> atm ],
               src |-> src ] >>

\* parse_transaction_details: beneficiario.split(None, 1)[-1] on the words of
\* the field; IndexError on an empty field.
DetailRaises(d) == d.kind # "ok" \/ d.beneficiario = <<>>
ParseTransactionDetails(d) ==
    IF Len(d.beneficiario) = 1 THEN d.beneficiario ELSE Tail(d.beneficiario)

\* get_transaction_details: the parsed beneficiary, "" on any exception.
GetTransactionDetails(d) ==
    IF DetailRaises(d) THEN <<>> ELSE ParseTransactionDetails(d)

\* The keys parse_cc_movements reads once the currency has been accepted.
CcKeys == {"tipo", "nombreComercio", "fecha", "importe", "idCupon"}

CcRaises(raw) ==
    \/ "moneda" \notin DOMAIN raw
    \/ StrLower(raw.moneda) \in {DolaresCapital, DolaresLower, PesosLower}
         /\ ~(CcKeys \subseteq DOMAIN raw)

\* The currency branch of parse_cc_movements: "USD", "UYU", or "" for the
\* branch that logs and continues.
CcCurrency(raw) ==
    IF StrLower(raw.moneda) \in {DolaresCapital, DolaresLower} THEN "USD"
    ELSE IF StrLower(raw.moneda) = PesosLower THEN "UYU"
    ELSE ""

\* A faulty variant of CcType: the raw type is lower-cased but not stripped.
CcTypeNoStrip(raw) == StrLower(raw.tipo)

\* "type": json_mov["tipo"].lower().strip()
CcType(raw) == StrStrip(StrLower(raw.tipo))

\* mov["type"] == "recibo de pago"
CcIsReceipt(raw) == CcType(raw) = ReciboDePago

\* A faulty variant of CcSign: the type follows the sign but the amount is not negated.
CcSignKeep(a) == [type |-> IF a < 0 THEN "credit" ELSE "debit", amount |-> a]

\* The sign branch of parse_cc_movements.
CcSign(a) ==
    IF a < 0 THEN [type |-> "credit", amount |-> a * (-1)]
    ELSE [type |-> "debit", amount |-> a]

\* The body of the loop of parse_cc_movements on a raw movement it does not
\* raise on: <<>> when it continues without appending, <<mov>> otherwise.
ParseCcMovement(raw, src) ==
    IF CcCurrency(raw) = "" THEN <<>>
    ELSE IF CcIsReceipt(raw) THEN <<>>
    ELSE
      LET desc == CleanText(raw.nombreComercio)
          sgn == CcSign(raw.importe)
      IN  << [ type |-> sgn.type,
               description |-> desc,
               date |-> ParseDate(raw.fecha),
               amount |-> sgn.amount,
               currency |-> CcCurrency(raw),
               coupon_id |-> raw.idCupon,
               meta |-> [ bank_costs |->
                            Len(desc) >= 3 /\ SubSeq(desc, 1, 3) = <<"COSTO", "DE", "TARJETA">> ],
               src |-> src ] >>

\* parse_cc_movements from position i on, for a payload it does not raise on.
RECURSIVE ParseCcMovements(_, _, _)
ParseCcMovements(body, t, i) ==
    IF i > Len(body) THEN <<>>
    ELSE ParseCcMovement(body[i], <<t, i>>) \o ParseCcMovements(body, t, i + 1)

\* parse_cc_movements raises on some movement of the payload.
CcBodyRaises(body) == \E i \in 1..Len(body) : CcRaises(body[i])

\* A faulty variant of ParseRun: the loop stops at the first movement of an unknown type.
RECURSIVE ParseRunStop(_, _, _, _)
ParseRunStop(body, t, i, out) ==
    IF i > Len(body) THEN [status |-> "finished", idx |-> i, out |-> out]
    ELSE IF TxRaises(body[i]) THEN [status |-> "raised", idx |-> i, out |-> <<>>]
    ELSE IF NeedsDetail(body[i]) THEN [status |-> "need_detail", idx |-> i, out |-> out]
    ELSE IF ~TxTypeKnown(body[i]) THEN [status |-> "finished", idx |-> i, out |-> out]
    ELSE ParseRunStop(body, t, i + 1, out \o ParseTransaction(body[i], <<>>, <<t, i>>))

\* The loop of parse_transactions from position i on with `out` collected so
\* far, up to where it ends: at the end of the payload, at a KeyError, or at a
\* movement whose detail lookup has to be made first.
RECURSIVE ParseRun(_, _, _, _)
ParseRun(body, t, i, out) ==
    IF i > Len(body) THEN [status |-> "finished", idx |-> i, out |-> out]
    ELSE IF TxRaises(body[i]) THEN [status |-> "raised", idx |-> i, out |-> <<>>]
    ELSE IF NeedsDetail(body[i]) THEN [status |-> "need_detail", idx |-> i, out |-> out]
    ELSE ParseRun(body, t, i + 1, out \o ParseTransaction(body[i], <<>>, <<t, i>>))

\* sorted(records, key=lambda x: x["date"]): a stable insertion sort.
RECURSIVE InsertByDate(_, _)
InsertByDate(sorted, r) ==
    IF sorted = <<>> THEN <<r>>
    ELSE IF DateGreater(sorted[Len(sorted)].date, r.date)
         THEN InsertByDate(SubSeq(sorted, 1, Len(sorted) - 1), r) \o <<sorted[Len(sorted)]>>
         ELSE sorted \o <<r>>

RECURSIVE SortLoop(_, _)
SortLoop(records, acc) ==
    IF records = <<>> THEN acc
    ELSE SortLoop(Tail(records), InsertByDate(acc, Head(records)))

SortedByDate(records) == SortLoop(records, <<>>)

\* by_currency_id of get_credit_cards: the movements of one currency, in order.
OfCurrency(movs, cur) == SelectSeq(movs, LAMBDA m : m.currency = cur)

RECURSIVE Flatten(_)
Flatten(lists) == IF lists = <<>> THEN <<>> ELSE Head(lists) \o Flatten(Tail(lists))

\* ---------------------------------------------------------- account listing

\* ACCOUNT_TYPES, in the order the dict is iterated
ACCOUNT_TYPES ==
    << <<"savings_account", "caja_de_ahorro">>,
       <<"transactional_account", "cuenta_corriente">>,
       <<"collections_account", "cuenta_recaudadora">>,
       <<"junior_savings_account", "cuenta_de_ahorro_junior">> >>

\* CURRENCIES
CURRENCIES ==
    ("URGP" :> [iso |-> "UYU", display |-> "$"]) @@
    ("US.D" :> [iso |-> "USD", display |-> "U$S"])

\* The raw accounts of a listing in the order parse_accounts visits them, each
\* with the account type of the key it stands under.
RECURSIVE RawAccountsFrom(_, _)
RawAccountsFrom(cuentas, k) ==
    IF k > Len(ACCOUNT_TYPES) THEN <<>>
    ELSE
      LET key == ACCOUNT_TYPES[k][2]
          under == IF key \in DOMAIN cuentas THEN cuentas[key] ELSE <<>>
      IN  [i \in 1..Len(under) |-> [type |-> ACCOUNT_TYPES[k][1], json |-> under[i]]]
            \o RawAccountsFrom(cuentas, k + 1)

CleanedAccount(type, account_json) ==
    [ type |-> type,
      currency_id |-> CURRENCIES[account_json.moneda].iso,
      currency_display |-> CURRENCIES[account_json.moneda].display,
      id |-> account_json.idCuenta,
      name |-> account_json.nombreTitular,
      hash |-> account_json.hash,
      balance |-> account_json.saldo,
      account_type_id |-> account_json.tipoCuenta,
      moneda |-> account_json.moneda,
      transactions |-> <<>>,
      writes |-> 0 ]

\* self.CURRENCIES[account_json["moneda"]] does not raise KeyError
KnownCurrency(account_json) == account_json.moneda \in DOMAIN CURRENCIES

\* parse_accounts: the accounts appended before the loop ends or raises, and
\* whether it raised (KeyError on "cuentas" or on the currency code).
\* "transactions" is not a key of an account until login assigns it: writes
\* counts the assignments.
ParseAccounts(listing) ==
    IF "cuentas" \notin DOMAIN listing THEN [raised |-> TRUE, accounts |-> <<>>]
    ELSE
      LET raws == RawAccountsFrom(listing.cuentas, 1)
          bad == {i \in 1..Len(raws) : ~KnownCurrency(raws[i].json)}
          n == IF bad = {} THEN Len(raws)
               ELSE (CHOOSE i \in bad : \A j \in bad : i <= j) - 1
      IN  [ raised |-> bad # {},
            accounts |-> [i \in 1..n |-> CleanedAccount(raws[i].type, raws[i].json)] ]

\* parse_credit_cards; the number keeps its first and last four digits.
MaskNumber(n) ==
    SubSeq(n, 1, 4) \o [i \in 1..8 |-> "X"] \o SubSeq(n, Len(n) - 3, Len(n))

CardKeys == {"sello", "nroTarjetaTitular", "fechaVencimiento", "nombreTitular", "id", "hash"}

CleanedCard(cc_json) ==
    [ brand |-> cc_json.sello,
      number |-> MaskNumber(cc_json.nroTarjetaTitular),
      expiration_date |-> ParseDate(cc_json.fechaVencimiento),
      name |-> cc_json.nombreTitular,
      id |-> cc_json.id,
      hash |-> cc_json.hash,
      movements |-> [USD |-> <<>>, UYU |-> <<>>],
      writes |-> 0 ]

\* The try block of get_credit_cards raises: the request, r.json() or
\* parse_credit_cards does.
CardsRaise(resp) ==
    \/ resp.kind # "ok"
    \/ \E i \in 1..Len(resp.cards) : ~(CardKeys \subseteq DOMAIN resp.cards[i])

\* self.credit_cards after the try/except of get_credit_cards
DiscoveredCards(resp) ==
    IF CardsRaise(resp) THEN <<>>
    ELSE [i \in 1..Len(resp.cards) |-> CleanedCard(resp.cards[i])]

\* ------------------------------------------------------------------ inputs
\* What the bank answers.  Every response is chosen when it arrives.

Jars == {"jarA", "jarB"}

RawAccount(id, moneda) ==
    [idCuenta |-> id, moneda |-> moneda, hash |-> id, saldo |-> 1000,
     tipoCuenta |-> 1, nombreTitular |-> "N"]

\* json.loads of the embedded account listing
Listings ==
    { [cuentas |-> <<>>],
      [cuentas |-> [caja_de_ahorro |-> <<RawAccount("A1", "URGP")>>]],
      [cuentas |-> [cuenta_corriente |-> <<RawAccount("A2", "US.D")>>,
                    caja_de_ahorro |-> <<RawAccount("A1", "URGP")>>]],
      [cuentas |-> [caja_de_ahorro |-> <<RawAccount("A1", "URGP"), RawAccount("A3", "EURO")>>]],
      [mensaje |-> "sin cuentas"] }

\* The login response: whether the POST was redirected (r.history is not
\* empty), the cookies of the first response, and the text: without the
\* "var mensajeUsuario = JSON.parse('...')" string, with one that is not JSON,
\* or with a listing.
LoginResponses ==
    { [redirected |-> FALSE, jar |-> "jarA", text |-> "absent", listing |-> <<>>] }
    \cup { [redirected |-> TRUE, jar |-> j, text |-> x, listing |-> <<>>] :
             j \in Jars, x \in {"absent", "bad_json"} }
    \cup { [redirected |-> TRUE, jar |-> j, text |-> "ok", listing |-> l] :
             j \in Jars, l \in Listings }

RawCard(id) ==
    [sello |-> "VISA",
     nroTarjetaTitular |-> <<"4", "1", "1", "1", "2", "2", "2", "2",
                             "3", "3", "3", "3", "4", "4", "4", "4">>,
     fechaVencimiento |-> [year |-> 2030, monthOfYear |-> 1, dayOfMonth |-> 31],
     nombreTitular |-> "N", id |-> id, hash |-> id]

CardsResponses ==
    { [kind |-> "network_error", cards |-> <<>>],
      [kind |-> "ok", cards |-> <<>>],
      [kind |-> "ok", cards |-> <<RawCard("K1")>>],
      [kind |-> "ok", cards |-> <<RawCard("K1"), RawCard("K2")>>],
      [kind |-> "ok", cards |-> <<RawCard("K1"), [sello |-> "VISA"]>>] }

\* The ways a month fetch fails before any movement is read: the request, the
\* body (r.json()), or a key of the envelope.
MonthFailures == {"network_error", "malformed_body", "missing_key"}

Fecha(d) == [year |-> 2016, monthOfYear |-> 5, dayOfMonth |-> d]

Compra == <<"COMPRA", "  ", "SUPERMERCADO">>
DebCambioss == <<"DEB.", " ", "CAMBIOSS">>
Retiro == <<"RETIRO", " ", "CAJERO", "\t", "18">>

RawTx(tipo, desc, importe, d) ==
    [tipo |-> tipo, descripcion |-> desc, descripcionAdicional |-> <<" ">>,
     importe |-> importe, saldo |-> 900, fecha |-> Fecha(d)]

\* The month payloads of an account the run is explored with.
AccountBodies ==
    { << RawTx("D", Compra, 7, 20), RawTx("C", DebCambioss, 5, 10) >>,
      << RawTx("X", Compra, 7, 10), RawTx("D", Retiro, -5, 10) >>,
      << RawTx("C", Compra, 7, 10), [tipo |-> "D", importe |-> 7] >> }

\* The month payloads the transaction normalizer is explored with.
RawTxs ==
    { RawTx(tipo, desc, importe, 10) :
        tipo \in {"D", "C", "X"}, desc \in {Compra, DebCambioss, Retiro},
        importe \in {-5, 0, 7} }
RichAccountBodies == UNION { [1..k -> RawTxs] : k \in 0..MaxRecs }

TipoCompra == <<"C", "o", "m", "p", "r", "a">>
TipoRecibo == <<" ", "R", "e", "c", "i", "b", "o", " ", "D", "E", " ", "p", "a", "g", "o", "\t">>
TipoReciboDoble == <<"r", "e", "c", "i", "b", "o", " ", " ", "d", "e", " ", "p", "a", "g", "o">>
MonedaDolares == <<"D", "o", "l", "a", "r", "e", "s">>
MonedaPesos == <<"P", "E", "S", "O", "S">>
MonedaPesosEspacio == <<"p", "e", "s", "o", "s", " ">>

RawMov(tipo, moneda, importe, d) ==
    [tipo |-> tipo, moneda |-> moneda, nombreComercio |-> <<"TIENDA", " ", "X">>,
     importe |-> importe, fecha |-> Fecha(d), idCupon |-> "cp"]

\* The month payloads of a card the run is explored with.
CardBodies ==
    { << RawMov(TipoCompra, MonedaDolares, -5, 20), RawMov(TipoRecibo, MonedaPesos, 7, 10),
         RawMov(TipoCompra, MonedaPesos, 7, 10) >>,
      << RawMov(TipoCompra, MonedaPesosEspacio, 7, 10), RawMov(TipoReciboDoble, MonedaPesos, 0, 10) >>,
      << RawMov(TipoCompra, MonedaPesos, 7, 10), [moneda |-> MonedaPesos] >> }

\* The month payloads the card normalizer is explored with.
RawMovs ==
    { RawMov(tipo, moneda, importe, 10) :
        tipo \in {TipoCompra, TipoRecibo, TipoReciboDoble},
        moneda \in {MonedaDolares, MonedaPesos, MonedaPesosEspacio},
        importe \in {-5, 0, 7} }
RichCardBodies == UNION { [1..k -> RawMovs] : k \in 0..MaxRecs }

MonthResponses(bodies) ==
    { [kind |-> f, body |-> <<>>] : f \in MonthFailures }
    \cup { [kind |-> "ok", body |-> b] : b \in bodies }

\* The answers of the transaction-detail endpoint.
DetailResponses ==
    { [kind |-> "network_error", beneficiario |-> <<>>],
      [kind |-> "ok", beneficiario |-> <<>>],
      [kind |-> "ok", beneficiario |-> <<"JUAN">>],
      [kind |-> "ok", beneficiario |-> <<"001", "JUAN">>] }

\* The month `k` months after the month of dt, with day d.
MonthsAfter(dt, k, d) ==
    LET n == dt[1] * 12 + (dt[2] - 1) + k
    IN  <<n \div 12, (n % 12) + 1, d>>

\* The clock values a gather is explored with: the first and the fifteenth of
\* the months from its epoch on.
Todays(epoch) ==
    { MonthsAfter(epoch, k, d) : k \in 0..(MaxFetches - 1), d \in {1, 15} }

\* The dates the planner is explored with.
PlanDates ==
    { <<y, m, d>> : y \in 2016..(2016 + NumYears - 1), m \in 1..12, d \in {1, 15, 29, 31} }
    \ { dt \in (2016..(2016 + NumYears - 1)) \X (1..12) \X {29, 31} : dt[3] > DaysInMonth(dt[1], dt[2]) }

\* ------------------------------------------------------------------- state

VARIABLES
    pc,            \* where login() stands
    cookies,       \* self.cookies ("unset" until login stores them)
    accounts,      \* self.accounts
    credit_cards,  \* self.credit_cards
    error,         \* the exception that ended the run ("none" while it runs)
    requests,      \* history: the kind and the cookies of every request issued
    login_resp,    \* history: the login response received
    today,         \* the clock, as datetime.date.today() reads it
    from_date,     \* the planner's from_date
    cursor,        \* the planner's loop variable (`today` in the code)
    entity,        \* the card or account being fetched: its index
    tasks,         \* the month tasks of the gather under way, in plan order
    running,       \* the task blocked in a synchronous detail lookup (0: none)
    done_order,    \* history: the tasks of the gather in completion order
    planned,       \* history: the month-fetches planned so far in the run
    files          \* the files save() has written: file name -> rows

vars == <<pc, cookies, accounts, credit_cards, error, requests, login_resp, today,
          from_date, cursor, entity, tasks, running, done_order, planned, files>>

NoResponse == [redirected |-> FALSE, jar |-> "", text |-> "none", listing |-> <<>>]

Init ==
    /\ pc = "start"
    /\ cookies = "unset"
    /\ accounts = <<>>
    /\ credit_cards = <<>>
    /\ error = "none"
    /\ requests = {}
    /\ login_resp = NoResponse
    /\ today = CardEpoch
    /\ from_date = CardEpoch
    /\ cursor = CardEpoch
    /\ entity = 0
    /\ tasks = <<>>
    /\ running = 0
    /\ done_order = <<>>
    /\ planned = 0
    /\ files = <<>>

\* ------------------------------------------------------------------- login

\* A faulty variant of RequestCookies: the request is sent without the session's cookies.
RequestCookiesNone == "unset"

\* cookies=self.cookies / cookies = dict(self.cookies): what a request carries
RequestCookies == cookies

\* The cookies the answer to a request may set ("": none).
SetCookies == {"", "jarC"}

\* A faulty variant of StoredCookies: the request was given self.cookies itself, and
\* the cookies its answer sets are stored in it.
StoredCookiesShared(set_cookie) == IF set_cookie = "" THEN cookies ELSE set_cookie

\* self.cookies after the answer to a request: the request was given a copy
\* (dict(self.cookies); requests merges cookies= into a jar of its own), so
\* the cookies the answer sets do not reach self.cookies.
StoredCookies(set_cookie) == cookies

\* r = requests.post(self.LOGIN_URL, ...): the POST leaves.
LoginPost ==
    /\ pc = "start"
    /\ pc' = "login_wait"
    /\ requests' = requests \cup {[kind |-> "login", cookies |-> "unset"]}
    /\ UNCHANGED <<cookies, accounts, credit_cards, error, login_resp, today,
                   from_date, cursor, entity, tasks, running, done_order, planned, files>>

\* The exception lines 500-508 of login raise on a response ("none": none):
\* r.history[0], re.search(...).group(1), json.loads, parse_accounts.
LoginFailure(resp) ==
    IF ~resp.redirected THEN "IndexError"
    ELSE IF resp.text = "absent" THEN "AttributeError"
    ELSE IF resp.text = "bad_json" THEN "JSONDecodeError"
    ELSE IF ParseAccounts(resp.listing).raised THEN "KeyError"
    ELSE "none"

\* The login response arrives: the cookies are stored, the listing is searched
\* for, decoded and parsed.  An exception leaves login() and the program.
LoginResponse(resp) ==
    /\ pc = "login_wait"
    /\ login_resp' = resp
    /\ cookies' = IF resp.redirected THEN resp.jar ELSE cookies
    /\ accounts' = IF resp.redirected /\ resp.text = "ok"
                   THEN ParseAccounts(resp.listing).accounts ELSE accounts
    /\ error' = LoginFailure(resp)
    /\ pc' = IF LoginFailure(resp) = "none" THEN "cards_request" ELSE "aborted"
    /\ UNCHANGED <<credit_cards, requests, today, from_date, cursor, entity, tasks,
                   running, done_order, planned, files>>

\* get_credit_cards: r = requests.post(self.CREDIT_CARD_URL, cookies=self.cookies)
CardsRequest ==
    /\ pc = "cards_request"
    /\ pc' = "cards_wait"
    /\ requests' = requests \cup {[kind |-> "cards", cookies |-> RequestCookies]}
    /\ UNCHANGED <<cookies, accounts, credit_cards, error, login_resp, today,
                   from_date, cursor, entity, tasks, running, done_order, planned, files>>

\* The card-discovery answer: parsed, or an empty card list on any exception.
CardsResponse(resp) ==
    /\ pc = "cards_wait"
    /\ credit_cards' = DiscoveredCards(resp)
    /\ \E sc \in SetCookies : cookies' = StoredCookies(sc)
    /\ entity' = 1
    /\ pc' = "cc_next"
    /\ UNCHANGED <<accounts, error, requests, login_resp, today, from_date,
                   cursor, tasks, running, done_order, planned, files>>

\* ----------------------------------------------------------------- planner

\* The number of iterations of `while today > from_date` from cur on.
RECURSIVE PlanLength(_, _)
PlanLength(cur, from) ==
    IF DateGreater(cur, from) THEN 1 + PlanLength(MonthBefore(cur), from) ELSE 0

\* A clock value this gather may read: not before the last one read, and such
\* that the run plans no more than MaxFetches month-fetches.
ClockReads(epoch) ==
    { t \in Todays(epoch) :
        DateLessEq(today, t) /\ planned + PlanLength(t, epoch) <= MaxFetches }

\* The coroutine get_month_credit_card(cc, today) / get_month_account_details(
\* account, today), not started.  History fields: endpoint and calls (the
\* month endpoint requested and how often), clock (the date the task read),
\* lookups (its detail lookups), ok and body (the answer received), owner (the
\* card or account the coroutine was made for).
NewTask(month_date) ==
    [ month |-> month_date, st |-> "created", endpoint |-> <<"none">>, calls |-> 0,
      owner |-> <<IF pc \in {"cc_plan", "cc_gather"} THEN "card" ELSE "account", entity>>,
      clock |-> <<>>, lookups |-> 0,
      ok |-> FALSE, body |-> <<>>, idx |-> 0, out |-> <<>>, result |-> <<>> ]

\* get_credit_cards, lines 255-261, for the next card.
CardPlanStart(t) ==
    /\ pc = "cc_next"
    /\ entity <= Len(credit_cards)
    /\ t \in ClockReads(CardEpoch)
    /\ today' = t
    /\ from_date' = CardEpoch
    /\ cursor' = t
    /\ tasks' = <<>>
    /\ done_order' = <<>>
    /\ pc' = "cc_plan"
    /\ UNCHANGED <<cookies, accounts, credit_cards, error, requests, login_resp,
                   entity, running, planned, files>>

\* login, lines 511-521: no card is left; the accounts are logged.
CardsDone ==
    /\ pc = "cc_next"
    /\ entity > Len(credit_cards)
    /\ entity' = 1
    /\ pc' = "acc_next"
    /\ UNCHANGED <<cookies, accounts, credit_cards, error, requests, login_resp,
                   today, from_date, cursor, tasks, running, done_order, planned, files>>

\* account_detail(account), lines 351-358, for the next account.
AccountPlanStart(t) ==
    /\ pc = "acc_next"
    /\ entity <= Len(accounts)
    /\ t \in ClockReads(AccountEpoch)
    /\ today' = t
    /\ from_date' = AccountEpoch
    /\ cursor' = t
    /\ tasks' = <<>>
    /\ done_order' = <<>>
    /\ pc' = "acc_plan"
    /\ UNCHANGED <<cookies, accounts, credit_cards, error, requests, login_resp,
                   entity, running, planned, files>>

\* One iteration of `while today > from_date`: a task for the month of the
\* cursor, and the cursor one month back.
PlanStep ==
    /\ pc \in {"cc_plan", "acc_plan"}
    /\ DateGreater(cursor, from_date)
    /\ tasks' = Append(tasks, NewTask(cursor))
    /\ cursor' = MonthBefore(cursor)
    /\ planned' = planned + 1
    /\ UNCHANGED <<pc, cookies, accounts, credit_cards, error, requests, login_resp,
                   today, from_date, entity, running, done_order, files>>

\* The loop ends; loop.run_until_complete(asyncio.gather(*tasks)) starts.
PlanEnd ==
    /\ pc \in {"cc_plan", "acc_plan"}
    /\ ~DateGreater(cursor, from_date)
    /\ pc' = IF pc = "cc_plan" THEN "cc_gather" ELSE "acc_gather"
    /\ UNCHANGED <<cookies, accounts, credit_cards, error, requests, login_resp, today,
                   from_date, cursor, entity, tasks, running, done_order, planned, files>>

\* ------------------------------------------------------------------ gather
\* The event loop runs one task at a time and switches only where a task
\* awaits the network.  The detail lookup is a blocking call made inside a
\* task: while it is in flight (running # 0) no task takes a step.

Gathering == pc \in {"cc_gather", "acc_gather"}

\* A faulty variant of LoopIdle: the detail lookup is awaited like a month fetch, and
\* the loop runs the other tasks meanwhile.
LoopIdleAlways == TRUE

\* The event loop can run a task: no task is inside the blocking
\* requests.post of get_transaction_details.
LoopIdle == running = 0

\* The endpoint choice of get_month_credit_card / get_month_account_details:
\* the current-period endpoint (mesActual, code "00000000") when the month is
\* the month of the date the coroutine reads, the historical one with the
\* month's year and month otherwise.
Endpoint(month_date, clock) ==
    IF month_date[2] = clock[2] /\ month_date[1] = clock[1]
    THEN <<"current">> ELSE <<"historical", month_date[1], month_date[2]>>

\* The dates a coroutine may read with datetime.date.today(): not before the
\* last date read.
TaskClocks == { c \in Todays(from_date) : DateLessEq(today, c) }

\* A task runs from its start to its first await: the date is read, the URL is
\* chosen, the cookies are copied and the request leaves.
TaskStart(t, clock) ==
    /\ Gathering
    /\ LoopIdle
    /\ tasks[t].st = "created"
    /\ clock \in TaskClocks
    /\ today' = clock
    /\ tasks' = [tasks EXCEPT ![t].st = "awaiting",
                              ![t].endpoint = Endpoint(tasks[t].month, clock),
                              ![t].clock = clock,
                              ![t].calls = @ + 1]
    /\ requests' = requests \cup
          {[kind |-> IF pc = "cc_gather" THEN "month_cc" ELSE "month_account",
            cookies |-> RequestCookies]}
    /\ UNCHANGED <<pc, cookies, accounts, credit_cards, error, login_resp,
                   from_date, cursor, entity, running, done_order, planned, files>>

\* The try block of a month task raises before or while the payload is read.
MonthRaises(resp, bodyRaises) == resp.kind # "ok" \/ bodyRaises

\* The answer of a card month arrives: parse_cc_movements runs to its end, or
\* the except branch returns [].
CardMonthResponse(t, resp) ==
    /\ pc = "cc_gather"
    /\ LoopIdle
    /\ tasks[t].st = "awaiting"
    /\ tasks' = [tasks EXCEPT
          ![t].st = "done",
          ![t].ok = resp.kind = "ok",
          ![t].body = resp.body,
          ![t].result = IF MonthRaises(resp, CcBodyRaises(resp.body)) THEN <<>>
                        ELSE ParseCcMovements(resp.body, t, 1)]
    /\ done_order' = Append(done_order, t)
    /\ \E sc \in SetCookies : cookies' = StoredCookies(sc)
    /\ UNCHANGED <<pc, accounts, credit_cards, error, requests, login_resp,
                   today, from_date, cursor, entity, running, planned, files>>

\* The task after the loop of parse_transactions has run as far as `run` says.
AfterParseRun(task, run) ==
    IF run.status = "need_detail"
    THEN [task EXCEPT !.st = "detail", !.idx = run.idx, !.out = run.out,
                      !.lookups = @ + 1]
    ELSE [task EXCEPT !.st = "done", !.idx = 0, !.out = <<>>, !.result = run.out]

\* The answer of an account month arrives: the except branch returns [], or
\* parse_transactions runs to its end or to a movement whose detail lookup it
\* makes, blocking the loop.
AccountMonthResponse(t, resp) ==
    /\ pc = "acc_gather"
    /\ LoopIdle
    /\ tasks[t].st = "awaiting"
    /\ LET got == [tasks[t] EXCEPT !.ok = resp.kind = "ok", !.body = resp.body]
           run == IF MonthRaises(resp, FALSE)
                  THEN [status |-> "raised", idx |-> 0, out |-> <<>>]
                  ELSE ParseRun(resp.body, t, 1, <<>>)
       IN  /\ tasks' = [tasks EXCEPT ![t] = AfterParseRun(got, run)]
           /\ running' = IF run.status = "need_detail" THEN t ELSE 0
           /\ done_order' = IF run.status = "need_detail" THEN done_order
                            ELSE Append(done_order, t)
           /\ requests' = IF run.status = "need_detail"
                          THEN requests \cup {[kind |-> "detail", cookies |-> RequestCookies]}
                          ELSE requests
    /\ \E sc \in SetCookies : cookies' = StoredCookies(sc)
    /\ UNCHANGED <<pc, accounts, credit_cards, error, login_resp, today,
                   from_date, cursor, entity, planned, files>>

\* The detail lookup returns: the movement is appended with its beneficiary
\* and the loop of parse_transactions goes on.
DetailResponse(d) ==
    /\ running # 0
    /\ LET t == running
           task == tasks[t]
           tx == ParseTransaction(task.body[task.idx], GetTransactionDetails(d),
                                  <<t, task.idx>>)
           run == ParseRun(task.body, t, task.idx + 1, task.out \o tx)
       IN  /\ tasks' = [tasks EXCEPT ![t] = AfterParseRun(task, run)]
           /\ running' = IF run.status = "need_detail" THEN t ELSE 0
           /\ done_order' = IF run.status = "need_detail" THEN done_order
                            ELSE Append(done_order, t)
           /\ requests' = IF run.status = "need_detail"
                          THEN requests \cup {[kind |-> "detail", cookies |-> RequestCookies]}
                          ELSE requests
    /\ \E sc \in SetCookies : cookies' = StoredCookies(sc)
    /\ UNCHANGED <<pc, accounts, credit_cards, error, login_resp, today,
                   from_date, cursor, entity, planned, files>>

\* A faulty variant of AllDone: the gather returns when its first task has finished.
AllDoneFirstCompleted == tasks = <<>> \/ \E t \in 1..Len(tasks) : tasks[t].st = "done"

\* run_until_complete(asyncio.gather(*tasks)) returns: every task has finished.
AllDone == \A t \in 1..Len(tasks) : tasks[t].st = "done"

\* A faulty variant of GatherResults: an exception of one task leaves the gather, and
\* no result is returned.
GatherResultsAbortOnFailure ==
    IF \E t \in 1..Len(tasks) : ~tasks[t].ok THEN <<>>
    ELSE [i \in 1..Len(tasks) |-> tasks[i].result]

\* A faulty variant of GatherResults: the results in the order the tasks completed.
GatherResultsAsCompleted == [i \in 1..Len(done_order) |-> tasks[done_order[i]].result]

\* asyncio.gather(*tasks): the results in the order of the tasks.
GatherResults == [i \in 1..Len(tasks) |-> tasks[i].result]

\* get_credit_cards, lines 267-276: the gathered months are flattened, sorted
\* by date and split by currency.
CardCollect ==
    /\ pc = "cc_gather"
    /\ AllDone
    /\ LET movs == SortedByDate(Flatten(GatherResults))
       IN  credit_cards' = [credit_cards EXCEPT
              ![entity].movements = [USD |-> OfCurrency(movs, "USD"),
                                     UYU |-> OfCurrency(movs, "UYU")],
              ![entity].writes = @ + 1]
    /\ entity' = entity + 1
    /\ pc' = "cc_next"
    /\ UNCHANGED <<cookies, accounts, error, requests, login_resp, today, from_date,
                   cursor, tasks, running, done_order, planned, files>>

\* account_detail, lines 364-369, and login, lines 525-527: the gathered months
\* are flattened, sorted by date and assigned.
AccountCollect ==
    /\ pc = "acc_gather"
    /\ AllDone
    /\ accounts' = [accounts EXCEPT
          ![entity].transactions = SortedByDate(Flatten(GatherResults)),
          ![entity].writes = @ + 1]
    /\ entity' = entity + 1
    /\ pc' = "acc_next"
    /\ UNCHANGED <<cookies, credit_cards, error, requests, login_resp, today,
                   from_date, cursor, tasks, running, done_order, planned, files>>

\* login, lines 530-575: every account has its transactions; the summary is logged.
Finish ==
    /\ pc = "acc_next"
    /\ entity > Len(accounts)
    /\ pc' = "done"
    /\ UNCHANGED <<cookies, accounts, credit_cards, error, requests, login_resp, today,
                   from_date, cursor, entity, tasks, running, done_order, planned, files>>

\* -------------------------------------------------------------------- save

DigitChars == <<"0", "1", "2", "3", "4", "5", "6", "7", "8", "9">>

\* The decimal digits of a natural number.
RECURSIVE Digits(_)
Digits(n) ==
    IF n < 10 THEN <<DigitChars[n + 1]>>
    ELSE Digits(n \div 10) \o <<DigitChars[(n % 10) + 1]>>

\* A number below 100 in two digits ("%m", "%d" of isoformat, the cents).
Pad2(n) == <<DigitChars[(n \div 10) + 1], DigitChars[(n % 10) + 1]>>

Magnitude(a) == IF a < 0 THEN 0 - a ELSE a

\* "{:.2f}".format(amount) of an amount held in cents
Format2f(a) ==
    (IF a < 0 THEN <<"-">> ELSE <<>>)
        \o Digits(Magnitude(a) \div 100) \o <<".">> \o Pad2(Magnitude(a) % 100)

\* What csv.writer writes for a number (str(value)) held in cents: the
\* shortest decimal text, with at least one decimal.
CsvNumber(a) ==
    LET cents == Magnitude(a) % 100
    IN  (IF a < 0 THEN <<"-">> ELSE <<>>)
            \o Digits(Magnitude(a) \div 100) \o <<".">>
            \o (IF cents % 10 = 0 THEN <<DigitChars[(cents \div 10) + 1]>> ELSE Pad2(cents))

\* What csv.writer writes for meta.get(flag): "True" when the flag is set, the
\* empty text for None.
CsvFlag(b) == IF b THEN "True" ELSE ""

\* date.isoformat()
IsoFormat(d) == Digits(d[1]) \o <<"-">> \o Pad2(d[2]) \o <<"-">> \o Pad2(d[3])

\* description.startswith(prefix) for a prefix of whole words, on a cleaned
\* text whose words are not cut by the prefix.
StartsWithWords(words, prefix) ==
    Len(words) >= Len(prefix) /\ SubSeq(words, 1, Len(prefix)) = prefix

\* The header rows save() writes.
AccountHeader ==
    <<"account", "currency", "date", "description", "additional_description", "type",
      "debit", "credit", "balance", "debit card purchase", "atm", "bank transfer",
      "tax return", "beneficiary">>
CardHeader ==
    <<"coupon", "currency", "date", "description", "type", "debit", "credit",
      "tax return", "bank costs", "life insurance">>

\* A faulty variant of DebitCredit: the debit column is filled whatever the type.
DebitCreditAlwaysDebit(rec) ==
    [ debit |-> Format2f(rec.amount),
      credit |-> IF rec.type = "credit" THEN Format2f(rec.amount) ELSE <<>> ]

\* The debit and credit cells of a row: the formatted amount in the column of
\* the record's type, the empty text in the other.
DebitCredit(rec) ==
    [ debit |-> IF rec.type = "debit" THEN Format2f(rec.amount) ELSE <<>>,
      credit |-> IF rec.type = "credit" THEN Format2f(rec.amount) ELSE <<>> ]

\* The data row of a transaction (lines 404-421).  bank_transfer and
\* tax_return are the flags parse_transaction sets from the description.
AccountRow(account, tx) ==
    << account.id,
       account.currency_id,
       IsoFormat(tx.date),
       tx.description,
       tx.additional_description,
       tx.type,
       DebitCredit(tx).debit,
       DebitCredit(tx).credit,
       CsvNumber(tx.balance),
       CsvFlag(tx.meta.debit_card_purchase),
       CsvFlag(tx.meta.atm),
       CsvFlag(StartsWithWords(tx.description, <<"TRASPASO", "DE">>)
                 \/ StartsWithWords(tx.description, <<"TRASPASO", "A">>)),
       CsvFlag(StartsWithWords(tx.description, <<"REDIVA", "1921">>)),
       IF tx.meta.beneficiary = <<>> THEN <<>> ELSE tx.meta.beneficiary[1] >>

\* The data row of a card movement (lines 452-465).
CardRow(mov) ==
    << mov.coupon_id,
       mov.currency,
       IsoFormat(mov.date),
       mov.description,
       mov.type,
       DebitCredit(mov).debit,
       DebitCredit(mov).credit,
       CsvFlag(StartsWithWords(mov.description, <<"REDUC.", "IVA", "LEY">>)
                 \/ StartsWithWords(mov.description, <<"DEVOLUCION", "DE", "IVA", "LEY">>)),
       CsvFlag(mov.meta.bank_costs),
       CsvFlag(StartsWithWords(mov.description, <<"SEGURO", "DE", "VIDA", "SOBRE", "SALDO">>)) >>

\* "{}-{}.csv".format(account["id"], account["currency_id"])
AccountFileName(account) == <<account.id, "-", account.currency_id, ".csv">>

\* "{}-{}-{}.csv".format(cc["brand"], currency, cc["number"])
CardFileName(cc, currency) == <<cc.brand, "-", currency, "-", cc.number, ".csv">>

\* The rows written to an account's file: the header, then one row for each
\* transaction, in the order of account["transactions"].
AccountFile(account) ==
    <<AccountHeader>>
        \o [i \in 1..Len(account.transactions) |-> AccountRow(account, account.transactions[i])]

CardFile(movements) ==
    <<CardHeader>> \o [i \in 1..Len(movements) |-> CardRow(movements[i])]

\* open(path / filename, "w") and the rows written: the file is created or
\* truncated.
WriteFile(fs, name, rows) == (name :> rows) @@ fs

\* The loop over self.accounts of save(), from account k on.
RECURSIVE SaveAccounts(_, _)
SaveAccounts(fs, k) ==
    IF k > Len(accounts) THEN fs
    ELSE SaveAccounts(WriteFile(fs, AccountFileName(accounts[k]), AccountFile(accounts[k])),
                      k + 1)

\* One card of the loop over self.credit_cards: a file for each currency that
\* is a key of cc["movements"], that is, that has a movement.
SaveCard(fs, cc) ==
    LET usd == IF cc.movements.USD = <<>> THEN fs
               ELSE WriteFile(fs, CardFileName(cc, "USD"), CardFile(cc.movements.USD))
    IN  IF cc.movements.UYU = <<>> THEN usd
        ELSE WriteFile(usd, CardFileName(cc, "UYU"), CardFile(cc.movements.UYU))

RECURSIVE SaveCards(_, _)
SaveCards(fs, k) ==
    IF k > Len(credit_cards) THEN fs
    ELSE SaveCards(SaveCard(fs, credit_cards[k]), k + 1)

\* client.save(path): called once the client is constructed.
Save ==
    /\ pc = "done"
    /\ files' = SaveCards(SaveAccounts(files, 1), 1)
    /\ pc' = "saved"
    /\ UNCHANGED <<cookies, accounts, credit_cards, error, requests, login_resp, today,
                   from_date, cursor, entity, tasks, running, done_order, planned>>

\* ---------------------------------------------------------- specifications

Next ==
    \/ LoginPost
    \/ \E resp \in LoginResponses : LoginResponse(resp)
    \/ CardsRequest
    \/ \E resp \in CardsResponses : CardsResponse(resp)
    \/ \E t \in Todays(CardEpoch) : CardPlanStart(t)
    \/ CardsDone
    \/ \E t \in Todays(AccountEpoch) : AccountPlanStart(t)
    \/ PlanStep
    \/ PlanEnd
    \/ \E t \in 1..Len(tasks) : TaskStart(t, today)
    \/ \E t \in 1..Len(tasks), resp \in MonthResponses(CardBodies) : CardMonthResponse(t, resp)
    \/ \E t \in 1..Len(tasks), resp \in MonthResponses(AccountBodies) : AccountMonthResponse(t, resp)
    \/ \E d \in DetailResponses : DetailResponse(d)
    \/ CardCollect
    \/ AccountCollect
    \/ Finish
    \/ Save

\* A run of the program.  The date is read anew for every plan; the month
\* tasks of a gather read the date their plan was made on.
Spec == Init /\ [][Next]_vars

\* The fetches of one entity on their own, the first card or the first
\* account of a run, under a clock that may advance between the plan and the
\* start of each month task.
FetchInit ==
    /\ cookies = "jarA"
    /\ error = "none"
    /\ login_resp = [redirected |-> TRUE, jar |-> "jarA", text |-> "ok",
                     listing |-> [cuentas |-> [caja_de_ahorro |-> <<RawAccount("A1", "URGP")>>]]]
    /\ accounts = ParseAccounts(login_resp.listing).accounts
    /\ requests = {[kind |-> "login", cookies |-> "unset"], [kind |-> "cards", cookies |-> "jarA"]}
    /\ today = CardEpoch
    /\ from_date = CardEpoch
    /\ cursor = CardEpoch
    /\ entity = 1
    /\ tasks = <<>>
    /\ running = 0
    /\ done_order = <<>>
    /\ planned = 0
    /\ files = <<>>
    /\ \/ /\ pc = "cc_next"
          /\ credit_cards = DiscoveredCards([kind |-> "ok", cards |-> <<RawCard("K1")>>])
       \/ /\ pc = "acc_next"
          /\ credit_cards = <<>>

FetchNext ==
    \/ \E t \in Todays(CardEpoch) : CardPlanStart(t)
    \/ \E t \in Todays(AccountEpoch) : AccountPlanStart(t)
    \/ PlanStep
    \/ PlanEnd
    \/ \E t \in 1..Len(tasks), clock \in Todays(from_date) : TaskStart(t, clock)
    \/ \E t \in 1..Len(tasks), resp \in MonthResponses(CardBodies) : CardMonthResponse(t, resp)
    \/ \E t \in 1..Len(tasks), resp \in MonthResponses(AccountBodies) : AccountMonthResponse(t, resp)
    \/ \E d \in DetailResponses : DetailResponse(d)
    \/ CardCollect
    \/ AccountCollect

FetchSpec == FetchInit /\ [][FetchNext]_vars

\* The planner on its own: account_detail(account, from_date) called with any
\* from_date, under any clock not before it.
PlanInit ==
    /\ pc = "acc_plan"
    /\ cookies = "jarA"
    /\ accounts = ParseAccounts([cuentas |-> [caja_de_ahorro |-> <<RawAccount("A1", "URGP")>>]]).accounts
    /\ credit_cards = <<>>
    /\ error = "none"
    /\ requests = {[kind |-> "login", cookies |-> "unset"], [kind |-> "cards", cookies |-> "jarA"]}
    /\ login_resp = [redirected |-> TRUE, jar |-> "jarA", text |-> "ok",
                     listing |-> [cuentas |-> [caja_de_ahorro |-> <<RawAccount("A1", "URGP")>>]]]
    /\ today \in PlanDates
    /\ from_date \in PlanDates
    /\ DateLessEq(from_date, today)
    /\ cursor = today
    /\ entity = 1
    /\ tasks = <<>>
    /\ running = 0
    /\ done_order = <<>>
    /\ planned = 0
    /\ files = <<>>

PlanNext == PlanStep \/ PlanEnd

PlanSpec == PlanInit /\ [][PlanNext]_vars

\* The normalizers on their own: one month task of an account, or of a card,
\* has sent its request; any payload of up to MaxRecs movements answers it.
AwaitingTask(month_date) ==
    [NewTask(month_date) EXCEPT !.st = "awaiting", !.endpoint = <<"current">>,
                                !.clock = month_date, !.calls = 1]

ParseInit ==
    /\ cookies = "jarA"
    /\ accounts = ParseAccounts([cuentas |-> [caja_de_ahorro |-> <<RawAccount("A1", "URGP")>>]]).accounts
    /\ error = "none"
    /\ login_resp = [redirected |-> TRUE, jar |-> "jarA", text |-> "ok",
                     listing |-> [cuentas |-> [caja_de_ahorro |-> <<RawAccount("A1", "URGP")>>]]]
    /\ entity = 1
    /\ running = 0
    /\ done_order = <<>>
    /\ planned = 1
    /\ files = <<>>
    /\ \/ /\ pc = "acc_gather"
          /\ credit_cards = <<>>
          /\ requests = {[kind |-> "login", cookies |-> "unset"],
                         [kind |-> "cards", cookies |-> "jarA"],
                         [kind |-> "month_account", cookies |-> "jarA"]}
          /\ today = MonthsAfter(AccountEpoch, 0, 15)
          /\ from_date = AccountEpoch
       \/ /\ pc = "cc_gather"
          /\ credit_cards = DiscoveredCards([kind |-> "ok", cards |-> <<RawCard("K1")>>])
          /\ requests = {[kind |-> "login", cookies |-> "unset"],
                         [kind |-> "cards", cookies |-> "jarA"],
                         [kind |-> "month_cc", cookies |-> "jarA"]}
          /\ today = MonthsAfter(CardEpoch, 0, 15)
          /\ from_date = CardEpoch
    /\ cursor = MonthBefore(today)
    /\ tasks = <<AwaitingTask(today)>>

ParseNext ==
    \/ \E resp \in MonthResponses(RichCardBodies) : CardMonthResponse(1, resp)
    \/ \E resp \in MonthResponses(RichAccountBodies) : AccountMonthResponse(1, resp)
    \/ \E d \in DetailResponses : DetailResponse(d)
    \/ CardCollect
    \/ AccountCollect

ParseSpec == ParseInit /\ [][ParseNext]_vars

\* ------------------------------------------------------------------ claims

\* The plan of the loop that has just ended, as (year, month) pairs.
Plan == [i \in 1..Len(tasks) |-> YearMonth(tasks[i].month)]

\* The month before a (year, month) pair.
YearMonthBefore(ym) == IF ym[2] = 1 THEN <<ym[1] - 1, 12>> ELSE <<ym[1], ym[2] - 1>>

\* C1: for from_date <= to_date, when the planning loop has ended its plan
\* starts at to_date's month, steps down one calendar month at a time, ends at
\* from_date's month, and has (month difference) + 1 entries.
PlannerCoversRange ==
    pc = "acc_gather" =>
        /\ Len(Plan) = MonthDiff(from_date, today) + 1
        /\ Plan[1] = YearMonth(today)
        /\ Plan[Len(Plan)] = YearMonth(from_date)
        /\ \A i \in 1..(Len(Plan) - 1) : Plan[i + 1] = YearMonthBefore(Plan[i])

\* The gather of the entity before `entity` has just been collected; `tasks`
\* still holds its month tasks.
JustCollected == pc \in {"cc_next", "acc_next"} /\ entity > 1

\* The records stored for the entity just collected.
StoredRecords ==
    IF pc = "cc_next"
    THEN credit_cards[entity - 1].movements.USD \o credit_cards[entity - 1].movements.UYU
    ELSE accounts[entity - 1].transactions

\* The fetch of task t succeeded: the answer arrived and no movement of it
\* lacks a key.
Succeeded(t) ==
    /\ tasks[t].ok
    /\ \A i \in 1..Len(tasks[t].body) :
          IF pc = "cc_next" THEN ~CcRaises(tasks[t].body[i]) ELSE ~TxRaises(tasks[t].body[i])

\* r is the normalized record of the raw movement at position i of task t.
NormalizedFrom(r, t, i) ==
    IF pc = "cc_next"
    THEN <<r>> = ParseCcMovement(tasks[t].body[i], <<t, i>>)
    ELSE \E d \in DetailResponses :
            <<r>> = ParseTransaction(tasks[t].body[i], GetTransactionDetails(d), <<t, i>>)

\* The raw movement at position i of task t is one the normalizer keeps.
Kept(t, i) ==
    IF pc = "cc_next"
    THEN ParseCcMovement(tasks[t].body[i], <<t, i>>) # <<>>
    ELSE TxTypeKnown(tasks[t].body[i])

\* C2: whatever months of a gather fail, each failed month resolves to an
\* empty list, the gather completes (no exception leaves it and the run goes
\* on), and the records stored are exactly the normalized records of the
\* months that succeeded.
FailedMonthsLeaveSiblings ==
    /\ (Gathering \/ JustCollected) => (error = "none" /\ pc # "aborted")
    /\ \A t \in 1..Len(tasks) :
          (tasks[t].st = "done" /\ ~tasks[t].ok) => tasks[t].result = <<>>
    /\ JustCollected =>
          /\ \A k \in 1..Len(StoredRecords) :
                LET r == StoredRecords[k]
                IN  /\ r.src[1] \in 1..Len(tasks)
                    /\ Succeeded(r.src[1])
                    /\ r.src[2] \in 1..Len(tasks[r.src[1]].body)
                    /\ NormalizedFrom(r, r.src[1], r.src[2])
                    /\ \A j \in 1..Len(StoredRecords) : StoredRecords[j].src = r.src => j = k
          /\ \A t \in 1..Len(tasks) : \A i \in 1..Len(tasks[t].body) :
                (Succeeded(t) /\ Kept(t, i)) =>
                    \E k \in 1..Len(StoredRecords) : StoredRecords[k].src = <<t, i>>

\* C2's case: a gather was collected in which one month failed and a sibling
\* month's records are stored.
FailedMonthsLeaveSiblingsWitness ==
    /\ JustCollected
    /\ \E t \in 1..Len(tasks) : ~tasks[t].ok
    /\ \E t \in 1..Len(tasks) : tasks[t].ok /\ tasks[t].result # <<>>
    /\ StoredRecords # <<>>

\* src a stands before src b in the flattened gather result.
SrcBefore(a, b) == a[1] < b[1] \/ (a[1] = b[1] /\ a[2] < b[2])

\* A stored sequence is sorted by date, equal dates in gather order.
DateOrdered(recs) ==
    \A i \in 1..Len(recs) : \A j \in (i + 1)..Len(recs) :
        /\ DateLessEq(recs[i].date, recs[j].date)
        /\ recs[i].date = recs[j].date => SrcBefore(recs[i].src, recs[j].src)

\* C3: whatever the order in which the month fetches of an entity complete,
\* the records stored for it are sorted by date ascending, and records of
\* equal date stand in the order of the flattened gather result (month tasks
\* in plan order, movements in payload order).
StoredOrderIgnoresCompletion ==
    /\ \A a \in 1..Len(accounts) : DateOrdered(accounts[a].transactions)
    /\ \A c \in 1..Len(credit_cards) :
          /\ DateOrdered(credit_cards[c].movements.USD)
          /\ DateOrdered(credit_cards[c].movements.UYU)

\* C3's case: the later month task completed first, and two stored records of
\* equal date come from different month tasks.
StoredOrderIgnoresCompletionWitness ==
    /\ JustCollected
    /\ Len(done_order) >= 2
    /\ done_order[1] > done_order[2]
    /\ \E i, j \in 1..Len(StoredRecords) :
          /\ i < j
          /\ StoredRecords[i].date = StoredRecords[j].date
          /\ StoredRecords[i].src[1] # StoredRecords[j].src[1]
    /\ \E i, j \in 1..Len(StoredRecords) :
          DateGreater(StoredRecords[j].date, StoredRecords[i].date)

\* C4: a login response without the embedded account listing ends login with
\* an AuthenticationError; the run is aborted and nothing but the login POST
\* was ever requested.
LoginWithoutListingIsAuthenticationError ==
    login_resp.text = "absent" =>
        /\ pc = "aborted"
        /\ error = "AuthenticationError"
        /\ \A r \in requests : r.kind = "login"

\* C5: once the login response has given cookies and a listing that decodes,
\* no failure ends the run.
OnlyLoginFailureEndsRun ==
    (login_resp.redirected /\ login_resp.text = "ok") =>
        (pc # "aborted" /\ error = "none")

\* C6: a request other than the login POST is issued only after the login
\* response has arrived and its cookies are stored, and it carries exactly
\* those cookies.
RequestsCarryLoginCookies ==
    \A r \in requests :
        r.kind # "login" =>
            /\ pc \notin {"start", "login_wait"}
            /\ login_resp.redirected
            /\ cookies = login_resp.jar
            /\ r.cookies = login_resp.jar

\* C6's case: card discovery, a card month, an account month and a detail
\* lookup have all been requested.
RequestsCarryLoginCookiesWitness ==
    {"cards", "month_cc", "month_account", "detail"} \subseteq {r.kind : r \in requests}

\* The records a month task of the normalizers' specification returned, and
\* those stored from them once collected.
AccountSide == pc \in {"acc_gather", "acc_next"}
CardSide == pc \in {"cc_gather", "cc_next"}

ReturnedRecords == IF tasks # <<>> /\ tasks[1].st = "done" THEN tasks[1].result ELSE <<>>

CollectedRecords ==
    IF pc = "acc_next" /\ entity = 2 THEN accounts[1].transactions
    ELSE IF pc = "cc_next" /\ entity = 2
         THEN credit_cards[1].movements.USD \o credit_cards[1].movements.UYU
    ELSE <<>>

\* The raw movement a normalized record of the task was made from.
RawOf(r) == tasks[r.src[1]].body[r.src[2]]

\* C7: every Transaction parse_transaction produces has a non-negative amount
\* and type debit or credit, whatever the sign of the raw importe.
TransactionAmountNonNegative ==
    AccountSide =>
        \A k \in 1..Len(ReturnedRecords) :
            /\ ReturnedRecords[k].amount >= 0
            /\ ReturnedRecords[k].type \in {"debit", "credit"}

\* C8: a card movement kept by parse_cc_movements from a raw amount a has
\* amount >= 0, amount = |a|, and type credit exactly when a < 0, debit
\* otherwise.
CardAmountSignNormalized ==
    CardSide =>
        \A k \in 1..Len(ReturnedRecords) :
            LET r == ReturnedRecords[k]
                a == RawOf(r).importe
            IN  /\ r.amount >= 0
                /\ r.amount = (IF a < 0 THEN 0 - a ELSE a)
                /\ r.type = "credit" <=> a < 0
                /\ r.type = "debit" <=> a >= 0

\* C8's case: a movement with a negative raw amount was kept.
CardAmountSignNormalizedWitness ==
    /\ CardSide
    /\ \E k \in 1..Len(ReturnedRecords) :
          RawOf(ReturnedRecords[k]).importe < 0 /\ ReturnedRecords[k].type = "credit"
    /\ \E k \in 1..Len(ReturnedRecords) :
          RawOf(ReturnedRecords[k]).importe = 0 /\ ReturnedRecords[k].type = "debit"

\* The raw type, lower-cased and stripped, is the payment-receipt literal.
IsPaymentReceipt(raw) == StrStrip(StrLower(raw.tipo)) = ReciboDePago

\* The raw currency text, lower-cased, is one of the known spellings.
CurrencyRecognized(raw) == StrLower(raw.moneda) \in {DolaresLower, PesosLower}

\* C9: no movement whose raw type is the payment-receipt literal (after
\* lower-casing and stripping) is returned by parse_cc_movements or stored in
\* cc["movements"], whatever its amount and currency; the other movements of
\* the payload whose currency is recognized are all returned.
PaymentReceiptsDropped ==
    CardSide =>
        /\ \A k \in 1..Len(ReturnedRecords) : ~IsPaymentReceipt(RawOf(ReturnedRecords[k]))
        /\ \A k \in 1..Len(CollectedRecords) : ~IsPaymentReceipt(RawOf(CollectedRecords[k]))
        /\ (tasks[1].st = "done" /\ tasks[1].ok) =>
              \A i \in 1..Len(tasks[1].body) :
                  (~IsPaymentReceipt(tasks[1].body[i]) /\ CurrencyRecognized(tasks[1].body[i]))
                      => \E k \in 1..Len(ReturnedRecords) : ReturnedRecords[k].src = <<1, i>>

\* C9's case: a payload with a payment receipt (written with capitals and
\* surrounding blanks) before another movement was parsed and collected, and
\* the other movement is stored.
PaymentReceiptsDroppedWitness ==
    /\ pc = "cc_next"
    /\ entity = 2
    /\ Len(tasks[1].body) = 2
    /\ tasks[1].body[1].tipo = TipoRecibo
    /\ Len(CollectedRecords) = 1
    /\ CollectedRecords[1].src = <<1, 2>>

\* The positions of the payload the records of a sequence come from.
Positions(recs) == [k \in 1..Len(recs) |-> recs[k].src[2]]

\* C10: of a month payload, exactly the movements of an unrecognized type
\* (accounts) or of an unrecognized currency and the payment receipts (cards)
\* are missing from what the normalizer returns; every other movement is
\* returned, in the order of the payload, and a movement dropped at one
\* position is dropped at every position it stands at.
OnlyUnrecognizedDropped ==
    (tasks[1].st = "done" /\ tasks[1].ok) =>
        LET body == tasks[1].body
            pos == Positions(ReturnedRecords)
            keep(raw) == IF AccountSide THEN raw.tipo \in {"D", "C"}
                         ELSE CurrencyRecognized(raw) /\ ~IsPaymentReceipt(raw)
        IN  /\ \A k \in 1..Len(pos) : pos[k] \in 1..Len(body) /\ keep(body[pos[k]])
            /\ \A k \in 1..(Len(pos) - 1) : pos[k] < pos[k + 1]
            /\ \A i \in 1..Len(body) : keep(body[i]) => \E k \in 1..Len(pos) : pos[k] = i
            /\ \A i, j \in 1..Len(body) :
                  body[i] = body[j] =>
                      ((\E k \in 1..Len(pos) : pos[k] = i) <=> (\E k \in 1..Len(pos) : pos[k] = j))

\* C10's case: an account payload whose first movement has an unknown type
\* and whose second has a known one; only the second is returned.
OnlyUnrecognizedDroppedWitness ==
    /\ AccountSide
    /\ tasks[1].st = "done"
    /\ Len(tasks[1].body) = 2
    /\ tasks[1].body[1].tipo = "X"
    /\ Positions(ReturnedRecords) = <<2>>

\* The data rows of an account's file.
DataRows(account) == Tail(files[AccountFileName(account)])

\* C11: save() writes to the file of an account that holds N transactions one
\* header row and then N data rows, the i-th from the i-th transaction of
\* account["transactions"]; in each data row exactly one of the debit and
\* credit columns is non-empty, and it holds the formatted amount.
SaveWritesOneRowPerTransaction ==
    pc = "saved" =>
        \A a \in 1..Len(accounts) :
            LET name == AccountFileName(accounts[a])
                txs == accounts[a].transactions
            IN  /\ name \in DOMAIN files
                /\ Len(files[name]) = Len(txs) + 1
                /\ files[name][1] = AccountHeader
                /\ \A i \in 1..Len(txs) :
                      LET row == DataRows(accounts[a])[i]
                      IN  /\ row[3] = IsoFormat(txs[i].date)
                          /\ row[4] = txs[i].description
                          /\ row[6] = txs[i].type
                          /\ (row[7] = <<>>) # (row[8] = <<>>)
                          /\ Format2f(txs[i].amount) \in {row[7], row[8]}

\* C11's case: an account with a debit and a credit of different dates was
\* saved.
SaveWritesOneRowPerTransactionWitness ==
    /\ pc = "saved"
    /\ \E a \in 1..Len(accounts) :
          LET txs == accounts[a].transactions
          IN  /\ Len(txs) >= 2
              /\ \E i, j \in 1..Len(txs) :
                    /\ txs[i].type = "debit"
                    /\ txs[j].type = "credit"
                    /\ txs[i].date # txs[j].date

\* The month tasks inside a detail lookup.
InDetail(tt) == {t \in 1..Len(tt) : tt[t].st = "detail"}

\* C12: the detail lookup runs inline in its month task: while it is in
\* flight no other month task of the gather takes a step (the only step is
\* the return of the lookup to the task that made it), and at most one lookup
\* is in flight at any time.
DetailLookupBlocksTheLoop ==
    [][ /\ running # 0 =>
              /\ Len(tasks') = Len(tasks)
              /\ \A t \in 1..Len(tasks) : t # running => tasks'[t] = tasks[t]
              /\ tasks'[running] # tasks[running]
        /\ Cardinality(InDetail(tasks')) <= 1
        /\ InDetail(tasks') = (IF running' = 0 THEN {} ELSE {running'}) ]_vars

\* C12's case: a detail lookup is in flight while one sibling month task
\* awaits its answer and another has not started.
DetailLookupBlocksTheLoopWitness ==
    /\ running # 0
    /\ tasks[running].st = "detail"
    /\ \E t \in 1..Len(tasks) : t # running /\ tasks[t].st = "awaiting"
    /\ \E t \in 1..Len(tasks) : t # running /\ tasks[t].st = "created"

\* C13: when the gather of an entity has completed, every planned month was
\* asked of its month endpoint exactly once: of the current-period endpoint
\* when the month is the calendar month of the date the task read, of the
\* historical endpoint with that month and year otherwise; and of a non-empty
\* plan exactly one call went to the current-period endpoint.
OneCurrentPeriodCallPerPlan ==
    (Gathering /\ AllDone) =>
        /\ \A t \in 1..Len(tasks) :
              /\ tasks[t].calls = 1
              /\ tasks[t].endpoint =
                    (IF YearMonth(tasks[t].month) = YearMonth(tasks[t].clock)
                     THEN <<"current">>
                     ELSE <<"historical", tasks[t].month[1], tasks[t].month[2]>>)
        /\ tasks # <<>> =>
              Cardinality({t \in 1..Len(tasks) : tasks[t].endpoint = <<"current">>}) = 1

\* C14: once login has stored the cookies, no step of the run changes them:
\* not the answer to the card-discovery request, to a month fetch or to a
\* detail lookup, whether it succeeds or fails and whatever cookies it sets.
StoredCookiesNeverChange ==
    [][pc \notin {"start", "login_wait"} => cookies' = cookies]_vars

\* C14's case: the run has ended after card discovery, card months, account
\* months and a detail lookup, the last gather with a failed month and months
\* completing out of plan order, and the cookies are those of the login.
StoredCookiesNeverChangeWitness ==
    /\ pc = "done"
    /\ cookies = login_resp.jar
    /\ {"cards", "month_cc", "month_account", "detail"} \subseteq {r.kind : r \in requests}
    /\ \E t \in 1..Len(tasks) : ~tasks[t].ok
    /\ Len(done_order) >= 2 /\ done_order[1] > done_order[2]

\* The entity the run is planning or gathering for.
CurrentOwner == <<IF pc \in {"cc_plan", "cc_gather"} THEN "card" ELSE "account", entity>>

\* C15: the month tasks in flight all belong to one entity; the tasks of an
\* entity are dropped for those of the next only when all of them have
\* finished; every card has its movements before an account is planned; and the
\* record list of an entity is assigned at most once, while the gather of that
\* entity has all its tasks finished, and exactly once when login ends.
EntitiesFetchedOneAtATime ==
    [][ /\ \A t \in 1..Len(tasks) :
              (pc \in {"cc_plan", "cc_gather", "acc_plan", "acc_gather"})
                  => tasks[t].owner = CurrentOwner
        /\ (tasks # <<>> /\ tasks' # tasks /\ Len(tasks') <= Len(tasks)
              /\ (tasks' = <<>> \/ tasks'[1].owner # tasks[1].owner))
              => \A t \in 1..Len(tasks) : tasks[t].st = "done"
        /\ (pc' \in {"acc_plan", "acc_gather"} \/ \E a \in 1..Len(accounts') : accounts'[a].writes > 0)
              => \A c \in 1..Len(credit_cards') : credit_cards'[c].writes = 1
        /\ \A a \in 1..Len(accounts) :
              /\ accounts'[a].writes <= 1
              /\ accounts'[a].writes # accounts[a].writes =>
                    /\ pc = "acc_gather" /\ entity = a
                    /\ \A t \in 1..Len(tasks) :
                          tasks[t].st = "done" /\ tasks[t].owner = <<"account", a>>
              /\ accounts'[a].transactions # accounts[a].transactions =>
                    accounts'[a].writes # accounts[a].writes
        /\ \A c \in 1..Len(credit_cards) :
              /\ credit_cards'[c].writes <= 1
              /\ credit_cards'[c].writes # credit_cards[c].writes =>
                    /\ pc = "cc_gather" /\ entity = c
                    /\ \A t \in 1..Len(tasks) :
                          tasks[t].st = "done" /\ tasks[t].owner = <<"card", c>>
              /\ credit_cards'[c].movements # credit_cards[c].movements =>
                    credit_cards'[c].writes # credit_cards[c].writes
        /\ pc' = "done" =>
              /\ \A a \in 1..Len(accounts') : accounts'[a].writes = 1
              /\ \A c \in 1..Len(credit_cards') : credit_cards'[c].writes = 1 ]_vars

\* C15's case: login has ended for a card and two accounts, each with records
\* from a month of its own gather.
EntitiesFetchedOneAtATimeWitness ==
    /\ pc = "done"
    /\ Len(credit_cards) >= 1
    /\ Len(accounts) >= 2
    /\ credit_cards[1].movements.UYU # <<>>
    /\ accounts[1].transactions # <<>>
    /\ accounts[2].transactions # <<>>
    /\ \A a \in 1..Len(accounts) : accounts[a].writes = 1

====
